---- MODULE Spec2Model ----
(***************************************************************************)
(* The two programs of the repository as one state machine.                *)
(*   prog = 1 : src/cr1ms0nh3ad_opengl/main.cpp (window cleared each frame)*)
(*   prog = 2 : src/unnamed/part_000 (shader build, quad upload, draw loop)*)
(* Both are single-threaded; pc is the position of main().  The windowing  *)
(* provider (GLFW), the loader (glad) and the driver are the environment:  *)
(* every value they return to the program is a nondeterministic input.     *)
(***************************************************************************)
EXTENDS Integers, Sequences, FiniteSets, TLC

\* ------------------------------------------------------------------ bounds
\* Frames the loop may start (the source's loop is unbounded).
MaxFrames == 3
\* Framebuffer widths/heights a resize event may carry: 1..MaxDim.
MaxDim == 2
\* Events one glfwPollEvents call may dispatch.
MaxEvents == 2

\* --------------------------------------------------------- program constants
SCR_WIDTH == 1024
SCR_HEIGHT == 1024
\* glDrawElements(GL_TRIANGLES, 6, GL_UNSIGNED_INT, 0)
IndexCount == 6

VARIABLES
    prog,           \* which of the two programs runs
    pc,             \* position of main()
    provider,       \* GLFW: "uninit" | "ready" | "terminated"
    window,         \* "null" | "open" | "destroyed"
    ctxCurrent,     \* glfwMakeContextCurrent done and context still exists
    callbackSet,    \* framebuffer_size_callback registered
    gladLoaded,     \* gladLoadGLLoader returned true
    shouldClose,    \* the window's close flag (glfwWindowShouldClose)
    status,         \* driver-held GL_COMPILE_STATUS / GL_LINK_STATUS
    live,           \* GL object handles created and not deleted by the program
    released,       \* number of release calls the program made, per resource
                    \* (glDeleteShader on a handle of 0 is a call, with no effect)
    cout,           \* lines written to std::cout, in order
    success,        \* main()'s `int success`: "uninit" | "true" | "false"
    viewport,       \* <<x, y, w, h>> of the current context
    resized,        \* a resize event has been dispatched
    lastResize,     \* <<w, h>> of the most recently dispatched resize event
    lastKey,        \* last result of glfwGetKey(window, GLFW_KEY_BACKSPACE)
    frames,         \* loop iterations started
    frameOps,       \* calls made so far in the current iteration, in order
    clears,         \* glClear calls so far
    draws,          \* glDrawElements calls so far
    drawsSinceClose,\* glDrawElements calls made while the close flag was set
    firstPress,     \* iteration whose processInput first saw the key pressed (0: none)
    lastOp,         \* the call made by the last step
    lastDraw,       \* <<mode, count>> of the last glDrawElements
    used,           \* handles the last call referenced
    clearColor,     \* <<r, g, b, a>> (thousandths) of the last glClear
    exitCode        \* value returned by main(), meaningful when pc = "done"

vars == <<prog, pc, provider, window, ctxCurrent, callbackSet, gladLoaded,
          shouldClose, status, live, released, cout, success, viewport,
          resized,
          lastResize, lastKey, frames, frameOps, clears, draws,
          drawsSinceClose, firstPress, lastOp, lastDraw, used, clearColor,
          exitCode>>

\* variable groups, for UNCHANGED
platformVars == <<provider, window, ctxCurrent, callbackSet, gladLoaded>>
buildVars    == <<status, live, released, cout, success>>
viewVars     == <<viewport, resized, lastResize>>
loopVars     == <<frames, frameOps, clears, draws, drawsSinceClose, firstPress,
                  lastDraw, clearColor>>

Resources == {"vertexShader", "fragmentShader", "shaderProgram",
              "VAO", "VBO", "EBO", "window"}

\* Calls that go through the GL function pointers glad loads.
GLOps == {"glCompileShader", "glLinkProgram", "glDeleteShader", "glGenBuffers",
          "glClear", "glUseProgram", "glBindVertexArray", "glBindBuffer",
          "glDrawElements", "glViewport"}

KeyStates == {"PRESS", "RELEASE"}

\* Window-system events glfwPollEvents can dispatch.
ResizeEvents == {[type |-> "resize", w |-> w, h |-> h] : w, h \in 1..MaxDim}
CloseEvent == [type |-> "close", w |-> 0, h |-> 0]
Events == ResizeEvents \cup {CloseEvent}

RECURSIVE SeqsUpTo(_, _)
SeqsUpTo(S, n) ==
    IF n = 0 THEN {<<>>}
    ELSE LET shorter == SeqsUpTo(S, n - 1)
         IN  shorter \cup {Append(s, e) : s \in {t \in shorter : Len(t) = n - 1}, e \in S}

Init ==
    /\ prog \in {1, 2}
    /\ pc = "glfwInit"
    /\ provider = "uninit"
    /\ window = "null"
    /\ ctxCurrent = FALSE
    /\ callbackSet = FALSE
    /\ gladLoaded = FALSE
    /\ shouldClose = FALSE
    /\ status = [s \in {"vertex", "fragment", "link"} |-> "pending"]
    /\ live = {}
    /\ released = [r \in Resources |-> 0]
    /\ cout = <<>>
    /\ success = "uninit"
    /\ viewport = <<0, 0, 0, 0>>
    /\ resized = FALSE
    /\ lastResize = <<0, 0>>
    /\ lastKey = "RELEASE"
    /\ frames = 0
    /\ frameOps = <<>>
    /\ clears = 0
    /\ draws = 0
    /\ drawsSinceClose = 0
    /\ firstPress = 0
    /\ lastOp = "start"
    /\ lastDraw = <<"none", 0>>
    /\ used = {}
    /\ clearColor = <<0, 0, 0, 0>>
    /\ exitCode = 0

\* ------------------------------------------------------------------ startup

\* glfwInit(); glfwWindowHint(...) x3
\* glfwInit may return GLFW_FALSE; the result is ignored and main() goes on
\* with the library not initialised.
GlfwInit ==
    /\ pc = "glfwInit"
    /\ \E ok \in BOOLEAN :
         provider' = IF ok THEN "ready" ELSE provider
    /\ pc' = "createWindow"
    /\ lastOp' = "glfwInit"
    /\ used' = {}
    /\ UNCHANGED <<prog, window, ctxCurrent, callbackSet, gladLoaded, shouldClose,
                   buildVars, viewVars, lastKey, loopVars, exitCode>>

\* glfwTerminate(): destroys every remaining window and its context; it does
\* nothing when the library is not initialised.
glfwTerminate ==
    /\ provider' = IF provider = "ready" THEN "terminated" ELSE provider
    /\ window' = IF window = "open" THEN "destroyed" ELSE window
    /\ ctxCurrent' = FALSE
    /\ released' = IF window = "open"
                   THEN [released EXCEPT !["window"] = @ + 1]
                   ELSE released

\* window = glfwCreateWindow(...); if (window == NULL) { log; glfwTerminate(); return -1; }
\* With the library not initialised glfwCreateWindow returns NULL.
CreateWindow ==
    /\ pc = "createWindow"
    /\ \E ok \in (IF provider = "ready" THEN BOOLEAN ELSE {FALSE}) :
         IF ok
         THEN /\ window' = "open"
              /\ pc' = "makeContextCurrent"
              /\ UNCHANGED <<provider, ctxCurrent, released, cout, exitCode>>
         ELSE /\ cout' = Append(cout, "failed to create GLFW window")
              /\ glfwTerminate
              /\ exitCode' = -1
              /\ pc' = "done"
    /\ lastOp' = "glfwCreateWindow"
    /\ used' = {}
    /\ UNCHANGED <<prog, callbackSet, gladLoaded, shouldClose, status, live,
                   success, viewVars, lastKey, loopVars>>

\* glfwMakeContextCurrent(window); glfwSetFramebufferSizeCallback(window, cb);
\* A context made current for the first time gets the window's size as viewport.
MakeContextCurrent ==
    /\ pc = "makeContextCurrent"
    /\ ctxCurrent' = TRUE
    /\ callbackSet' = TRUE
    /\ viewport' = <<0, 0, SCR_WIDTH, SCR_HEIGHT>>
    /\ pc' = "loadGL"
    /\ lastOp' = "glfwMakeContextCurrent"
    /\ used' = {"window"}
    /\ UNCHANGED <<prog, provider, window, gladLoaded, shouldClose, buildVars,
                   resized, lastResize, lastKey, loopVars, exitCode>>

\* LoadGL with the early return missing from the failure branch.
LoadGL_NoReturn ==
    /\ pc = "loadGL"
    /\ \E ok \in BOOLEAN :
         /\ gladLoaded' = ok
         /\ cout' = IF ok THEN cout ELSE Append(cout, "failed to initialize GLAD")
    /\ pc' = IF prog = 2 THEN "vertexShader" ELSE "loopTest"
    /\ lastOp' = "gladLoadGLLoader"
    /\ used' = {}
    /\ UNCHANGED <<prog, provider, window, ctxCurrent, callbackSet, shouldClose,
                   status, live, released, success, viewVars, lastKey, loopVars,
                   exitCode>>

\* if (!gladLoadGLLoader(...)) { log; return -1; }
LoadGL ==
    /\ pc = "loadGL"
    /\ \E ok \in BOOLEAN :
         IF ok
         THEN /\ gladLoaded' = TRUE
              /\ pc' = IF prog = 2 THEN "vertexShader" ELSE "loopTest"
              /\ UNCHANGED <<cout, exitCode>>
         ELSE /\ cout' = Append(cout, "failed to initialize GLAD")
              /\ exitCode' = -1
              /\ pc' = "done"
              /\ UNCHANGED gladLoaded
    /\ lastOp' = "gladLoadGLLoader"
    /\ used' = {}
    /\ UNCHANGED <<prog, provider, window, ctxCurrent, callbackSet, shouldClose,
                   status, live, released, success, viewVars, lastKey, loopVars>>

\* ------------------------------------------------------- shader program build

\* int success; (line 72): the values a read of it can give.  It is written
\* only by glGetShaderiv / glGetProgramiv, and only when the object they are
\* asked about exists; read before any write it is indeterminate.
ReadSuccess(s) ==
    IF s = "uninit" THEN BOOLEAN ELSE {s = "true"}

\* what glGetShaderiv / glGetProgramiv store into success for a status
StoreSuccess(ok) ==
    IF ok THEN "true" ELSE "false"

\* vertexShader = glCreateShader(GL_VERTEX_SHADER); glShaderSource; glCompileShader;
\* glGetShaderiv(GL_COMPILE_STATUS, &success); if (!success) { glGetShaderInfoLog; log }
\* glCreateShader may return 0: then nothing is compiled and glGetShaderiv
\* raises GL_INVALID_VALUE without writing success.
CompileVertex ==
    /\ pc = "vertexShader"
    /\ \E created \in BOOLEAN, ok \in BOOLEAN :
         LET compiled == created /\ ok
             after == IF created THEN StoreSuccess(ok) ELSE success
         IN  /\ status' = [status EXCEPT
                              !["vertex"] = IF compiled THEN "ok" ELSE "failed"]
             /\ live' = IF created THEN live \cup {"vertexShader"} ELSE live
             /\ success' = after
             /\ \E seen \in ReadSuccess(after) :
                  cout' = IF seen THEN cout
                          ELSE Append(cout,
                                      "ERROR::SHADER::VERTEX::COMPILATION_FAILED")
    /\ pc' = "fragmentShader"
    /\ lastOp' = "glCompileShader"
    /\ used' = {"vertexShader"}
    /\ UNCHANGED <<prog, platformVars, shouldClose, released, viewVars, lastKey,
                   loopVars, exitCode>>

\* fragmentShader = glCreateShader(GL_FRAGMENT_SHADER); glShaderSource; glCompileShader;
\* (the compile status is not read, success is not touched)
CompileFragment ==
    /\ pc = "fragmentShader"
    /\ \E created \in BOOLEAN, ok \in BOOLEAN :
         /\ status' = [status EXCEPT
                          !["fragment"] = IF created /\ ok THEN "ok" ELSE "failed"]
         /\ live' = IF created THEN live \cup {"fragmentShader"} ELSE live
    /\ pc' = "linkProgram"
    /\ lastOp' = "glCompileShader"
    /\ used' = {"fragmentShader"}
    /\ UNCHANGED <<prog, platformVars, shouldClose, released, cout, success,
                   viewVars, lastKey, loopVars, exitCode>>

\* shaderProgram = glCreateProgram(); glAttachShader x2; glLinkProgram;
\* glGetProgramiv(GL_LINK_STATUS, &success); if (!success) { glGetProgramInfoLog; log }
\* glCreateProgram may return 0: then nothing is linked and glGetProgramiv
\* raises GL_INVALID_VALUE without writing success, so line 101 tests what the
\* vertex check left in it.
LinkProgram ==
    /\ pc = "linkProgram"
    /\ \E created \in BOOLEAN, ok \in BOOLEAN :
         LET linked == created /\ ok
             after == IF created THEN StoreSuccess(ok) ELSE success
         IN  /\ status' = [status EXCEPT
                              !["link"] = IF linked THEN "ok" ELSE "failed"]
             /\ live' = IF created THEN live \cup {"shaderProgram"} ELSE live
             /\ success' = after
             /\ \E seen \in ReadSuccess(after) :
                  cout' = IF seen THEN cout
                          ELSE Append(cout,
                                      "ERROR::SHADER::PROGRAM::LINKING::FAILED")
    /\ pc' = "deleteShaders"
    /\ lastOp' = "glLinkProgram"
    /\ used' = {"shaderProgram", "vertexShader", "fragmentShader"}
    /\ UNCHANGED <<prog, platformVars, shouldClose, released, viewVars, lastKey,
                   loopVars, exitCode>>

\* DeleteShaders with the second glDeleteShader call missing.
DeleteShaders_VertexOnly ==
    /\ pc = "deleteShaders"
    /\ live' = live \ {"vertexShader"}
    /\ released' = [released EXCEPT !["vertexShader"] = @ + 1]
    /\ pc' = "setupGeometry"
    /\ lastOp' = "glDeleteShader"
    /\ used' = {"vertexShader"}
    /\ UNCHANGED <<prog, platformVars, shouldClose, status, cout, success,
                   viewVars, lastKey, loopVars, exitCode>>

\* glDeleteShader(vertexShader); glDeleteShader(fragmentShader);
DeleteShaders ==
    /\ pc = "deleteShaders"
    /\ live' = live \ {"vertexShader", "fragmentShader"}
    /\ released' = [released EXCEPT !["vertexShader"] = @ + 1,
                                    !["fragmentShader"] = @ + 1]
    /\ pc' = "setupGeometry"
    /\ lastOp' = "glDeleteShader"
    /\ used' = {"vertexShader", "fragmentShader"}
    /\ UNCHANGED <<prog, platformVars, shouldClose, status, cout, success,
                   viewVars, lastKey, loopVars, exitCode>>

\* glGenVertexArrays / glGenBuffers x2, binds, glBufferData x2,
\* glVertexAttribPointer, glEnableVertexAttribArray, unbinds, glPolygonMode
SetupGeometry ==
    /\ pc = "setupGeometry"
    /\ live' = live \cup {"VAO", "VBO", "EBO"}
    /\ pc' = "loopTest"
    /\ lastOp' = "glGenBuffers"
    /\ used' = {"VAO", "VBO", "EBO"}
    /\ UNCHANGED <<prog, platformVars, shouldClose, status, released, cout,
                   success, viewVars, lastKey, loopVars, exitCode>>

\* ---------------------------------------------------------------- frame loop

\* while (!glfwWindowShouldClose(window))
LoopTest ==
    /\ pc = "loopTest"
    /\ IF shouldClose
       THEN /\ pc' = "terminate"
            /\ UNCHANGED <<frames, frameOps>>
       ELSE /\ frames < MaxFrames
            /\ frames' = frames + 1
            /\ frameOps' = <<>>
            /\ pc' = "processInput"
    /\ lastOp' = "glfwWindowShouldClose"
    /\ used' = {"window"}
    /\ UNCHANGED <<prog, platformVars, shouldClose, buildVars, viewVars, lastKey,
                   clears, draws, drawsSinceClose, firstPress, lastDraw,
                   clearColor, exitCode>>

\* processInput that requests the close whatever the key state is.
processInput_AnyKey(key, flag) ==
    TRUE

\* processInput that never requests the close.
processInput_Ignore(key, flag) ==
    flag

\* void processInput(window): the close flag after the call, given the key
\* state glfwGetKey returned and the flag before.
processInput(key, flag) ==
    IF key = "PRESS" THEN TRUE ELSE flag

\* processInput(window);
ProcessInput ==
    /\ pc = "processInput"
    /\ \E key \in KeyStates :
         /\ lastKey' = key
         /\ shouldClose' = processInput(key, shouldClose)
         /\ firstPress' = IF key = "PRESS" /\ firstPress = 0 THEN frames
                          ELSE firstPress
    /\ frameOps' = Append(frameOps, "processInput")
    /\ pc' = "clear"
    /\ lastOp' = "processInput"
    /\ used' = {"window"}
    /\ UNCHANGED <<prog, platformVars, buildVars, viewVars, frames, clears, draws,
                   drawsSinceClose, lastDraw, clearColor, exitCode>>

\* the colour each program passes to glClearColor, in thousandths
ConfiguredColor(p) ==
    IF p = 2 THEN <<0, 0, 0, 1000>> ELSE <<1000, 325, 700, 1000>>

\* Clear that leaves the frame uncleared once the close flag is set.
Clear_SkippedOnClose ==
    /\ pc = "clear"
    /\ clearColor' = IF shouldClose THEN clearColor ELSE ConfiguredColor(prog)
    /\ clears' = IF shouldClose THEN clears ELSE clears + 1
    /\ frameOps' = IF shouldClose THEN frameOps ELSE Append(frameOps, "glClear")
    /\ pc' = IF prog = 2 THEN "useProgram" ELSE "swapBuffers"
    /\ lastOp' = IF shouldClose THEN lastOp ELSE "glClear"
    /\ used' = {}
    /\ UNCHANGED <<prog, platformVars, shouldClose, buildVars, viewVars, lastKey,
                   frames, draws, drawsSinceClose, firstPress, lastDraw, exitCode>>

\* glClearColor(...); glClear(GL_COLOR_BUFFER_BIT);
Clear ==
    /\ pc = "clear"
    /\ clearColor' = ConfiguredColor(prog)
    /\ clears' = clears + 1
    /\ frameOps' = Append(frameOps, "glClear")
    /\ pc' = IF prog = 2 THEN "useProgram" ELSE "swapBuffers"
    /\ lastOp' = "glClear"
    /\ used' = {}
    /\ UNCHANGED <<prog, platformVars, shouldClose, buildVars, viewVars, lastKey,
                   frames, draws, drawsSinceClose, firstPress, lastDraw, exitCode>>

\* glUseProgram(shaderProgram);
UseProgram ==
    /\ pc = "useProgram"
    /\ frameOps' = Append(frameOps, "glUseProgram")
    /\ pc' = "bindArrays"
    /\ lastOp' = "glUseProgram"
    /\ used' = {"shaderProgram"}
    /\ UNCHANGED <<prog, platformVars, shouldClose, buildVars, viewVars, lastKey,
                   frames, clears, draws, drawsSinceClose, firstPress, lastDraw,
                   clearColor, exitCode>>

\* glBindVertexArray(VAO); glBindBuffer(GL_ELEMENT_ARRAY_BUFFER, EBO);
BindArrays ==
    /\ pc = "bindArrays"
    /\ frameOps' = frameOps \o <<"glBindVertexArray", "glBindBuffer">>
    /\ pc' = "drawElements"
    /\ lastOp' = "glBindBuffer"
    /\ used' = {"VAO", "EBO"}
    /\ UNCHANGED <<prog, platformVars, shouldClose, buildVars, viewVars, lastKey,
                   frames, clears, draws, drawsSinceClose, firstPress, lastDraw,
                   clearColor, exitCode>>

\* glDrawElements(GL_TRIANGLES, 6, GL_UNSIGNED_INT, 0);
DrawElements ==
    /\ pc = "drawElements"
    /\ draws' = draws + 1
    /\ drawsSinceClose' = IF shouldClose THEN drawsSinceClose + 1
                          ELSE drawsSinceClose
    /\ lastDraw' = <<"GL_TRIANGLES", IndexCount>>
    /\ frameOps' = Append(frameOps, "glDrawElements")
    /\ pc' = "swapBuffers"
    /\ lastOp' = "glDrawElements"
    /\ used' = {"shaderProgram", "VAO", "EBO"}
    /\ UNCHANGED <<prog, platformVars, shouldClose, buildVars, viewVars, lastKey,
                   frames, clears, firstPress, clearColor, exitCode>>

\* glfwSwapBuffers(window);
SwapBuffers ==
    /\ pc = "swapBuffers"
    /\ frameOps' = Append(frameOps, "glfwSwapBuffers")
    /\ pc' = "pollEvents"
    /\ lastOp' = "glfwSwapBuffers"
    /\ used' = {"window"}
    /\ UNCHANGED <<prog, platformVars, shouldClose, buildVars, viewVars, lastKey,
                   frames, clears, draws, drawsSinceClose, firstPress, lastDraw,
                   clearColor, exitCode>>

\* framebuffer_size_callback with width and height passed in the wrong order.
framebuffer_size_callback_Swapped(width, height) ==
    <<0, 0, height, width>>

\* void framebuffer_size_callback(window, width, height) { glViewport(0, 0, width, height); }
\* : the viewport after the call.
framebuffer_size_callback(width, height) ==
    <<0, 0, width, height>>

\* One event dispatched by glfwPollEvents.  st is the part of the state an
\* event can change.  A resize runs the registered callback; a close request
\* from the window system sets the window's close flag.
OnEvent(e, st) ==
    IF e.type = "resize"
    THEN IF callbackSet
         THEN [st EXCEPT !.viewport = framebuffer_size_callback(e.w, e.h),
                         !.resized = TRUE,
                         !.lastResize = <<e.w, e.h>>]
         ELSE st
    ELSE [st EXCEPT !.shouldClose = TRUE]

\* The pending events are dispatched in arrival order.
RECURSIVE Dispatch(_, _)
Dispatch(evs, st) ==
    IF evs = <<>> THEN st
    ELSE Dispatch(Tail(evs), OnEvent(Head(evs), st))

\* glfwPollEvents();
PollEvents ==
    /\ pc = "pollEvents"
    /\ \E evs \in SeqsUpTo(Events, MaxEvents) :
         LET st == Dispatch(evs, [viewport |-> viewport, resized |-> resized,
                                  lastResize |-> lastResize,
                                  shouldClose |-> shouldClose])
         IN  /\ viewport' = st.viewport
             /\ resized' = st.resized
             /\ lastResize' = st.lastResize
             /\ shouldClose' = st.shouldClose
             /\ lastOp' = IF \E i \in 1..Len(evs) : evs[i].type = "resize"
                          THEN "glViewport" ELSE "glfwPollEvents"
    /\ frameOps' = Append(frameOps, "glfwPollEvents")
    /\ pc' = "loopTest"
    /\ used' = {"window"}
    /\ UNCHANGED <<prog, platformVars, buildVars, lastKey, frames, clears, draws,
                   drawsSinceClose, firstPress, lastDraw, clearColor, exitCode>>

\* ------------------------------------------------------------------ teardown

\* glfwTerminate(); return 0;
Terminate ==
    /\ pc = "terminate"
    /\ glfwTerminate
    /\ exitCode' = 0
    /\ pc' = "done"
    /\ lastOp' = "glfwTerminate"
    /\ used' = {}
    /\ UNCHANGED <<prog, callbackSet, gladLoaded, shouldClose, status, live, cout,
                   success, viewVars, lastKey, loopVars>>

Next ==
    \/ GlfwInit
    \/ CreateWindow
    \/ MakeContextCurrent
    \/ LoadGL
    \/ CompileVertex
    \/ CompileFragment
    \/ LinkProgram
    \/ DeleteShaders
    \/ SetupGeometry
    \/ LoopTest
    \/ ProcessInput
    \/ Clear
    \/ UseProgram
    \/ BindArrays
    \/ DrawElements
    \/ SwapBuffers
    \/ PollEvents
    \/ Terminate

Spec == Init /\ [][Next]_vars

\* ===================================================================== claims

StageHandles == {"vertexShader", "fragmentShader"}
LoopPcs == {"loopTest", "processInput", "clear", "useProgram", "bindArrays",
            "drawElements", "swapBuffers", "pollEvents"}
PerFrameOps == {"glfwWindowShouldClose", "processInput", "glClear", "glUseProgram",
                "glBindBuffer", "glDrawElements", "glfwSwapBuffers",
                "glfwPollEvents", "glViewport"}

\* C1 (as stated): in the second program the close flag is raised only by
\* processInput on observing the key pressed, and no glDrawElements is issued
\* once the flag is set, not even in the rest of that iteration.
C1_NoDrawAfterTransition ==
    [][prog = 2 =>
         /\ (~shouldClose /\ shouldClose') =>
                (pc = "processInput" /\ lastKey' = "PRESS")
         /\ shouldClose => draws' = draws]_vars

\* C1 (amended): in the second program the close flag, once set, stays set;
\* it is raised either by processInput, exactly on an iteration in which it
\* observes the key pressed, or by a close request dispatched by the event
\* poll; the iteration in which processInput raises it still runs to its end,
\* issuing exactly one more glDrawElements (none if the event poll raised it),
\* and no draw is issued once the loop condition has seen the flag.
C1_AtMostOneDrawAfterTransition ==
    [][prog = 2 =>
         /\ shouldClose => shouldClose'
         /\ (~shouldClose /\ shouldClose') =>
                \/ pc = "processInput" /\ lastKey' = "PRESS"
                \/ pc = "pollEvents"
         /\ (pc = "processInput" /\ lastKey' = "PRESS") => shouldClose'
         /\ drawsSinceClose' <= 1
         /\ pc' = "terminate" =>
                drawsSinceClose' = (IF lastKey' = "PRESS" THEN 1 ELSE 0)
         /\ pc \in {"terminate", "done"} => draws' = draws]_vars

\* C1 witness: the second program has exited after processInput saw the key,
\* having drawn once with the flag set.
C1_Witness ==
    /\ prog = 2 /\ pc = "done" /\ exitCode = 0
    /\ firstPress > 0 /\ lastKey = "PRESS" /\ drawsSinceClose = 1

\* C2 (as stated): on a normal exit of the second program the program handle,
\* the three geometry handles and the window have each been released exactly
\* once and none of them is left alive.
C2_TeardownReleasesAll ==
    (prog = 2 /\ pc = "done" /\ exitCode = 0) =>
        /\ \A r \in {"shaderProgram", "VAO", "VBO", "EBO", "window"} :
              released[r] = 1
        /\ live = {}

\* C3 (as stated): a run that ends with exit code -1 has left no initialised
\* provider (it was terminated, or never got initialised) and no open window,
\* and made no shader, buffer or draw call; and each of the two startup
\* failures ends with exit code -1.
C3_FatalStartupReleases ==
    /\ (pc = "done" /\ exitCode = -1) =>
          /\ provider # "ready"
          /\ window # "open"
          /\ live = {} /\ clears = 0 /\ draws = 0
          /\ \A s \in DOMAIN status : status[s] = "pending"
    /\ (pc = "done" /\ cout # <<>> /\
        cout[Len(cout)] \in {"failed to create GLFW window",
                             "failed to initialize GLAD"}) => exitCode = -1

\* C4 (as stated): once the link has been attempted, a program handle exists
\* and the run has not stopped, and nothing has been logged exactly when the
\* vertex compile, the fragment compile and the link all succeeded.
C4_DiagnosticIffFailure ==
    (prog = 2 /\ status["link"] # "pending") =>
        /\ "shaderProgram" \in live
        /\ pc = "done" => exitCode = 0
        /\ (cout = <<>>) <=> (\A s \in DOMAIN status : status[s] = "ok")

\* C5 (as stated): when the fragment compile has failed and the link is about
\* to be attempted, the last line logged is a diagnostic of the fragment stage
\* (a line, and not the vertex stage's).
C5_FragmentDiagnosticLogged ==
    (prog = 2 /\ pc = "linkProgram" /\ status["fragment"] = "failed") =>
        /\ cout # <<>>
        /\ cout[Len(cout)] # "ERROR::SHADER::VERTEX::COMPILATION_FAILED"

\* C6: in the second program glDeleteShader is called at most once per stage
\* handle and only after the link attempt; from the first loop test on,
\* whatever the outcomes of creating, compiling and linking were, it has been
\* called exactly once for each, neither is alive, and no per-frame call
\* references one.
C6_StageHandlesReleasedOnce ==
    prog = 2 =>
        /\ \A h \in StageHandles :
              /\ released[h] <= 1
              /\ released[h] > 0 => status["link"] # "pending"
        /\ (pc \in LoopPcs \cup {"terminate"} \/ (pc = "done" /\ exitCode = 0)) =>
              /\ \A h \in StageHandles : released[h] = 1
              /\ live \cap StageHandles = {}
        /\ (pc \in LoopPcs \cup {"terminate"} /\ lastOp \in PerFrameOps) =>
              used \cap StageHandles = {}

\* C6 witness: the loop runs after a failed fragment compile and a failed
\* link, with both stage handles released.
C6_Witness ==
    /\ prog = 2 /\ pc = "drawElements"
    /\ status["fragment"] = "failed" /\ status["link"] = "failed"
    /\ released["vertexShader"] = 1 /\ released["fragmentShader"] = 1

\* C7: once a resize event has been dispatched, the viewport is
\* (0, 0, width, height) of the most recently dispatched one in every later
\* state, so at every later glClear and glDrawElements.
C7_ViewportFollowsResize ==
    resized => viewport = <<0, 0, lastResize[1], lastResize[2]>>

\* C7 witness: a draw issued after two resizes in one poll, the later one
\* with width # height.
C7_Witness ==
    /\ prog = 2 /\ lastOp = "glDrawElements" /\ resized
    /\ lastResize = <<1, 2>> /\ viewport = <<0, 0, 1, 2>>

\* the order of section 4.3 of the specification, as calls
C8_Order ==
    <<"processInput", "glClear", "glUseProgram", "glBindVertexArray",
      "glBindBuffer", "glDrawElements", "glfwSwapBuffers", "glfwPollEvents">>

\* C8: in the second program the calls of the current iteration are always a
\* prefix of the fixed order, a finished iteration made exactly all of them,
\* every finished iteration cleared and drew exactly once, and every draw is
\* of 6 indices as triangles.
C8_FixedOrderEachOnce ==
    prog = 2 =>
        /\ Len(frameOps) <= Len(C8_Order)
        /\ frameOps = SubSeq(C8_Order, 1, Len(frameOps))
        /\ (pc = "loopTest" /\ frames > 0) =>
              /\ frameOps = C8_Order
              /\ clears = frames /\ draws = frames
        /\ draws > 0 => lastDraw = <<"GL_TRIANGLES", 6>>

\* C8 witness: a second iteration has finished, the first having left the
\* close flag clear and the second having set it.
C8_Witness ==
    /\ prog = 2 /\ pc = "loopTest" /\ frames = 2 /\ shouldClose
    /\ firstPress = 2 /\ draws = 2

\* C9: when the second program has exited and its first processInput saw the
\* key pressed, exactly one frame was cleared, to the configured colour, at
\* most one draw was issued, and the exit code is 0.
C9_ImmediateExit ==
    (prog = 2 /\ pc = "done" /\ firstPress = 1) =>
        /\ clears = 1
        /\ clearColor = <<0, 0, 0, 1000>>
        /\ draws \in {0, 1}
        /\ exitCode = 0
        /\ provider = "terminated"

\* C9 witness: such a run, with no resize dispatched.
C9_Witness ==
    /\ prog = 2 /\ pc = "done" /\ firstPress = 1 /\ ~resized
    /\ clears = 1 /\ exitCode = 0

\* C10: in both programs a GL call is made only with the window open, its
\* context current, the loader having succeeded and the provider not
\* terminated; the resize callback's glViewport happens only as the last
\* thing of a loop iteration's event poll.
C10_GLOnlyWithLiveContext ==
    /\ lastOp \in GLOps =>
          /\ window = "open" /\ ctxCurrent /\ gladLoaded
          /\ provider = "ready"
    /\ lastOp = "glViewport" =>
          /\ pc = "loopTest" /\ frames > 0
          /\ frameOps[Len(frameOps)] = "glfwPollEvents"
    /\ provider = "terminated" => (pc = "done" /\ lastOp \notin GLOps)

\* C10 witness: the first program has run the resize callback in an event poll.
C10_Witness ==
    /\ prog = 1 /\ lastOp = "glViewport" /\ resized /\ clears > 0

====
